---- MODULE Spec2Model ----
(***************************************************************************)
(* A model of the api2html engine: the Handler with its renderer hot-swap  *)
(* subscription loop and request path (engine/handler.go) and the mustache *)
(* renderer construction with its partial provider (engine/mustache.go).   *)
(*                                                                         *)
(* Strings that the code only compares are TLA+ strings.  The cache        *)
(* lifetime, which the code parses byte by byte, is the sequence of its    *)
(* bytes: an ASCII byte is the string of its character, any other byte the *)
(* string of its two hexadecimal digits.                                   *)
(* An error value is a non-empty string, the nil error is NoError.         *)
(***************************************************************************)
EXTENDS Integers, Sequences, FiniteSets, TLC

\* ------------------------------------------------------------------ bounds

\* Number of Handlers sharing the registration channel.
NumHandlers == 2
\* Number of broadcasts (recompilation cycles) the Broker performs.
MaxBroadcasts == 2

Handlers == 1..NumHandlers

NoError == ""

\* ------------------------------------------------------------ uint64, float64

\* A natural number is the sequence of its digits in base 2^15, the least
\* significant first and the most significant not zero, so that the 64-bit
\* integers of the time package are exact.  Zero is the empty sequence.
Base == 2^15

Zero == <<>>
One == <<1>>

Limb(a, i) == IF i <= Len(a) THEN a[i] ELSE 0

\* a without its leading zero digits.
Trim(a) ==
    LET nz == {i \in 1..Len(a) : a[i] # 0}
    IN IF nz = {} THEN <<>> ELSE SubSeq(a, 1, CHOOSE i \in nz : \A j \in nz : j <= i)

\* The number of a literal of the source.
NatOf(n) == Trim(<<n % Base, (n \div Base) % Base, n \div (Base * Base)>>)

\* a * Base^n
ShiftLimbs(a, n) == IF a = <<>> THEN <<>> ELSE [i \in 1..n |-> 0] \o a

\* a + b: a digit receives a carry when a lower digit overflows and every
\* digit between them is full.
Add(a, b) ==
    IF a = <<>> THEN b
    ELSE IF b = <<>> THEN a
    ELSE LET n == IF Len(a) < Len(b) THEN Len(b) ELSE Len(a)
             s(i) == Limb(a, i) + Limb(b, i)
             carry(i) == \E j \in 1..(i - 1) :
                             s(j) >= Base /\ \A k \in (j + 1)..(i - 1) : s(k) = Base - 1
         IN Trim([i \in 1..(n + 1) |-> (s(i) + (IF carry(i) THEN 1 ELSE 0)) % Base])

\* a - b for a >= b: a digit lends when a lower digit falls short and every
\* digit between them is zero.
Sub(a, b) ==
    IF b = <<>> THEN a
    ELSE LET d(i) == a[i] - Limb(b, i)
             borrow(i) == \E j \in 1..(i - 1) :
                              d(j) < 0 /\ \A k \in (j + 1)..(i - 1) : d(k) = 0
         IN Trim([i \in 1..Len(a) |-> (d(i) - (IF borrow(i) THEN 1 ELSE 0) + Base) % Base])

\* -1, 0 or 1 as a is below, equal to or above b.
Cmp(a, b) ==
    LET diff == {i \in 1..Len(a) : a[i] # Limb(b, i)}
        top == CHOOSE i \in diff : \A j \in diff : j <= i
    IN IF Len(a) < Len(b) THEN -1
       ELSE IF Len(a) > Len(b) THEN 1
       ELSE IF diff = {} THEN 0
       ELSE IF a[top] < b[top] THEN -1 ELSE 1

Gt(a, b) == Cmp(a, b) = 1

\* a * k for 0 <= k <= Base: the low parts of the digit products and the
\* high parts of the products one digit below, with their carries.
MulSmall(a, k) ==
    IF a = <<>> \/ k = 0 THEN <<>>
    ELSE LET s(i) == ((Limb(a, i) * k) % Base)
                     + (IF i = 1 THEN 0 ELSE (a[i - 1] * k) \div Base)
             carry(i) == \E j \in 1..(i - 1) :
                             s(j) >= Base /\ \A n \in (j + 1)..(i - 1) : s(n) = Base - 1
         IN Trim([i \in 1..(Len(a) + 1) |-> (s(i) + (IF carry(i) THEN 1 ELSE 0)) % Base])

RECURSIVE MulFrom(_, _, _)
MulFrom(a, b, st) ==
    IF st.i = 0 THEN st.acc
    ELSE MulFrom(a, b, [i |-> st.i - 1,
                        acc |-> Add(MulSmall(a, b[st.i]), ShiftLimbs(st.acc, 1))])

\* a * b, from the most significant digit of b down.
Mul(a, b) == MulFrom(a, b, [i |-> Len(b), acc |-> Zero])

\* a * 2^k and the whole part of a / 2^k.
Shl(a, k) == ShiftLimbs(MulSmall(a, 2^(k % 15)), k \div 15)

Shr(a, k) ==
    LET w == k \div 15
        s == k % 15
    IN IF Len(a) <= w THEN <<>>
       ELSE Trim([i \in 1..(Len(a) - w) |->
                     (a[w + i] \div 2^s) + (Limb(a, w + i + 1) % 2^s) * 2^(15 - s)])

\* The number of bits of a digit, and of a number.
SmallBitLen(n) == CHOOSE k \in 0..15 : n < 2^k /\ (k = 0 \/ n >= 2^(k - 1))

BitLen(a) == IF a = <<>> THEN 0 ELSE 15 * (Len(a) - 1) + SmallBitLen(a[Len(a)])

\* The digit q with q * b <= r < (q + 1) * b, for r below Base * b and the
\* top digit of b at least Base / 2: the quotient of the top digits of r by
\* the top digit of b is q, q + 1 or q + 2.
QDigit(r, b) ==
    LET n == Len(b)
        est == (Limb(r, n + 1) * Base + Limb(r, n)) \div b[n]
        hi == IF est > Base - 1 THEN Base - 1 ELSE est
    IN CHOOSE q \in {hi - 2, hi - 1, hi} :
           q >= 0 /\ ~Gt(MulSmall(b, q), r) /\ Gt(MulSmall(b, q + 1), r)

\* The state of the long division after the digit qd of the quotient.
DivDigit(b, st, cur, qd) ==
    [i |-> st.i - 1,
     q |-> IF qd = 0 /\ st.q = <<>> THEN <<>> ELSE <<qd>> \o st.q,
     r |-> Sub(cur, MulSmall(b, qd))]

\* One step of the long division: the next digit of a joins the remainder.
DivStep(a, b, st) ==
    DivDigit(b, st, Trim(<<a[st.i]>> \o st.r), QDigit(Trim(<<a[st.i]>> \o st.r), b))

RECURSIVE DivFrom(_, _, _)
DivFrom(a, b, st) == IF st.i = 0 THEN st ELSE DivFrom(a, b, DivStep(a, b, st))

\* Quotient and remainder of a by b, for b > 0: long division from the most
\* significant digit of a down, both scaled so that the top digit of b is at
\* least Base / 2.
DivScaled(an, bn) == DivFrom(an, bn, [i |-> Len(an), q |-> <<>>, r |-> <<>>])

DivUnscale(d, sh) == [q |-> d.q, r |-> Shr(d.r, sh)]

DivBy(a, b, sh) == DivUnscale(DivScaled(Shl(a, sh), Shl(b, sh)), sh)

DivMod(a, b) == DivBy(a, b, 15 - SmallBitLen(b[Len(b)]))

\* A uint64 sum or product keeps the low 64 bits.
Wrap64(a) == IF BitLen(a) <= 64 THEN a ELSE Sub(a, Shl(Shr(a, 64), 64))

\* A float64 that is not negative is m * 2^e with m below 2^53, or m = 2^53.
\* Round53 is the float64 nearest to (n + t) * 2^e, ties to even, where t is
\* below one and is not zero exactly when sticky holds.  None of the values
\* of this model is near the ends of the exponent range.
RoundUp(c, q, sticky) == c = 1 \/ (c = 0 /\ (sticky \/ q[1] % 2 = 1))

\* q is n without its k low bits; those bits are compared with one half.
RoundQuotient(n, e, sticky, k, q) ==
    [m |-> IF RoundUp(Cmp(Sub(n, Shl(q, k)), Shl(One, k - 1)), q, sticky)
           THEN Add(q, One) ELSE q,
     e |-> e + k]

RoundBits(n, e, sticky, k) == RoundQuotient(n, e, sticky, k, Shr(n, k))

Round53(n, e, sticky) ==
    IF BitLen(n) <= 53 THEN [m |-> n, e |-> e]
    ELSE RoundBits(n, e, sticky, BitLen(n) - 53)

\* float64(n)
F64FromNat(n) == Round53(n, 0, FALSE)

\* x * y
F64Mul(x, y) == Round53(Mul(x.m, y.m), x.e + y.e, FALSE)

\* x / y, y not zero
RoundDivided(d, e) == Round53(d.q, e, d.r # <<>>)

F64Div(x, y) ==
    IF x.m = <<>> THEN [m |-> <<>>, e |-> 0]
    ELSE RoundDivided(DivMod(Shl(x.m, 55 + BitLen(y.m)), y.m),
                      x.e - y.e - (55 + BitLen(y.m)))

\* x + y
F64Add(x, y) ==
    LET e == IF x.e < y.e THEN x.e ELSE y.e
    IN Round53(Add(Shl(x.m, x.e - e), Shl(y.m, y.e - e)), e, FALSE)

\* uint64(x), int(x): the whole part
F64Trunc(x) == IF x.e >= 0 THEN Shl(x.m, x.e) ELSE Shr(x.m, 0 - x.e)

\* ------------------------------------------------------------- time.Duration

\* A Duration is a count of nanoseconds: the magnitude and the sign.
SecondNs == NatOf(1000 * 1000 * 1000)

\* time.Minute and time.Hour
MinuteNs == MulSmall(SecondNs, 60)
HourNs == MulSmall(MinuteNs, 60)

\* 1<<63
Lim63 == Shl(One, 63)

\* 1<<63/10 and (1<<63-1)/10
Lim63Div10 == DivMod(Lim63, NatOf(10)).q
Max63Div10 == DivMod(Sub(Lim63, One), NatOf(10)).q

IsDigit(c) == c \in {"0", "1", "2", "3", "4", "5", "6", "7", "8", "9"}

DigitVal(c) ==
    CASE c = "0" -> 0 [] c = "1" -> 1 [] c = "2" -> 2 [] c = "3" -> 3
      [] c = "4" -> 4 [] c = "5" -> 5 [] c = "6" -> 6 [] c = "7" -> 7
      [] c = "8" -> 8 [] c = "9" -> 9

errLeadingInt == "time: bad [0-9]*"

\* One digit of leadingInt: c := s[i] ... x = x*10 + uint64(c) - '0'.
leadingIntDigit(st, x) ==
    IF Gt(st.x, Lim63Div10)
    THEN [x |-> Zero, rem |-> <<>>, err |-> errLeadingInt]
    ELSE IF Gt(x, Lim63)
    THEN [x |-> Zero, rem |-> <<>>, err |-> errLeadingInt]
    ELSE [x |-> x, rem |-> Tail(st.rem), err |-> NoError]

leadingIntStep(st) ==
    leadingIntDigit(st, Add(MulSmall(st.x, 10), NatOf(DigitVal(Head(st.rem)))))

RECURSIVE leadingIntFrom(_)
leadingIntFrom(st) ==
    IF st.rem = <<>> \/ ~IsDigit(Head(st.rem)) THEN st
    ELSE leadingIntFrom(leadingIntStep(st))

\* leadingInt consumes the leading [0-9]* from s; a value above 1<<63 is an
\* error, and the rest of the string is then empty.
leadingInt(s) == leadingIntFrom([x |-> Zero, rem |-> s, err |-> NoError])

\* One digit of leadingFraction.
leadingFractionDigit(st, y) ==
    IF st.overflow THEN [st EXCEPT !.rem = Tail(st.rem)]
    ELSE IF Gt(st.x, Max63Div10) \/ Gt(y, Lim63)
    THEN [st EXCEPT !.rem = Tail(st.rem), !.overflow = TRUE]
    ELSE [x |-> y,
          scale |-> F64Mul(st.scale, F64FromNat(NatOf(10))),
          rem |-> Tail(st.rem),
          overflow |-> FALSE]

leadingFractionStep(st) ==
    leadingFractionDigit(st, Add(MulSmall(st.x, 10), NatOf(DigitVal(Head(st.rem)))))

RECURSIVE leadingFractionFrom(_)
leadingFractionFrom(st) ==
    IF st.rem = <<>> \/ ~IsDigit(Head(st.rem)) THEN st
    ELSE leadingFractionFrom(leadingFractionStep(st))

\* leadingFraction consumes the leading [0-9]* from s, the digits after a
\* point; once the value would overflow it stops accumulating precision.
leadingFraction(s) ==
    leadingFractionFrom([x |-> Zero, scale |-> F64FromNat(One), rem |-> s, overflow |-> FALSE])

\* The length of the unit: everything up to the next '.' or digit.
unitLen(s) ==
    LET stops == {i \in 1..Len(s) : s[i] = "." \/ IsDigit(s[i])}
    IN IF stops = {} THEN Len(s) ELSE (CHOOSE i \in stops : \A j \in stops : i <= j) - 1

\* unitMap: the nanoseconds of each unit, and whether the unit is known.  The
\* two bytes of U+00B5 are C2 B5, those of U+03BC are CE BC.
unitMap(u) ==
    CASE u = <<"n", "s">> -> [unit |-> One, ok |-> TRUE]
      [] u = <<"u", "s">> -> [unit |-> NatOf(1000), ok |-> TRUE]
      [] u = <<"C2", "B5", "s">> -> [unit |-> NatOf(1000), ok |-> TRUE]
      [] u = <<"CE", "BC", "s">> -> [unit |-> NatOf(1000), ok |-> TRUE]
      [] u = <<"m", "s">> -> [unit |-> NatOf(1000 * 1000), ok |-> TRUE]
      [] u = <<"s">> -> [unit |-> SecondNs, ok |-> TRUE]
      [] u = <<"m">> -> [unit |-> MinuteNs, ok |-> TRUE]
      [] u = <<"h">> -> [unit |-> HourNs, ok |-> TRUE]
      [] OTHER -> [unit |-> Zero, ok |-> FALSE]

\* v *= unit, and for f > 0
\* v += uint64(float64(f) * (float64(unit) / scale)).
unitsToDuration(v, f, scale, unit) ==
    Add(Mul(v, unit),
        IF f = Zero THEN Zero
        ELSE F64Trunc(F64Mul(F64FromNat(f), F64Div(F64FromNat(unit), scale))))

\* d += v
addDuration(a, b) == Wrap64(Add(a, b))

\* errors.New("time: invalid duration " + quote(orig))
invalid(d) == [d |-> d, rem |-> <<>>, err |-> "invalid duration"]

\* d += v, and the check d > 1<<63; rest is what follows the group.
groupSum(d, rest, sum) ==
    IF Gt(sum, Lim63) THEN invalid(d) ELSE [d |-> sum, rem |-> rest, err |-> NoError]

\* The check v > 1<<63 that follows the addition of the fraction.
groupFraction(d, lf, rest, v) ==
    IF lf.x # Zero /\ Gt(v, Lim63) THEN invalid(d)
    ELSE groupSum(d, rest, addDuration(d, v))

\* The unit of the group: known, and v > 1<<63/unit is an overflow.
groupUnit(d, li, lf, rest, unit) ==
    IF ~unit.ok THEN [d |-> d, rem |-> <<>>, err |-> "unknown unit in duration"]
    ELSE IF Gt(li.x, DivMod(Lim63, unit.unit).q) THEN invalid(d)
    ELSE groupFraction(d, lf, rest, unitsToDuration(li.x, lf.x, lf.scale, unit.unit))

\* pre := pl != len(s) after leadingInt, and post := pl != len(s) after
\* leadingFraction, which runs when a point follows the integer.
pre(s, li) == Len(li.rem) # Len(s)

hasPoint(li) == li.rem # <<>> /\ Head(li.rem) = "."

post(li, lf) == hasPoint(li) /\ Len(lf.rem) # Len(Tail(li.rem))

\* After the digits: pre and post tell whether the group has digits before
\* and after the point; the unit is what follows them.
groupDigits(s, d, li, lf) ==
    IF ~pre(s, li) /\ ~post(li, lf) THEN invalid(d)
    ELSE IF unitLen(lf.rem) = 0
    THEN [d |-> d, rem |-> <<>>, err |-> "missing unit in duration"]
    ELSE groupUnit(d, li, lf,
                   SubSeq(lf.rem, unitLen(lf.rem) + 1, Len(lf.rem)),
                   unitMap(SubSeq(lf.rem, 1, unitLen(lf.rem))))

\* After leadingInt: its error, and the digits after a point.
groupInt(s, d, li) ==
    IF li.err # NoError THEN invalid(d)
    ELSE groupDigits(s, d, li,
                     IF hasPoint(li)
                     THEN leadingFraction(Tail(li.rem))
                     ELSE [x |-> Zero, scale |-> F64FromNat(One),
                           rem |-> li.rem, overflow |-> FALSE])

\* One group  [0-9]*(\.[0-9]*)?[a-z]+  of the loop of time.ParseDuration,
\* added to d: the sum, what is left of s, and the error.
parseGroup(s, d) ==
    IF ~(Head(s) = "." \/ IsDigit(Head(s))) THEN invalid(d)
    ELSE groupInt(s, d, leadingInt(s))

\* The loop of time.ParseDuration: for s != "".
RECURSIVE parseGroups(_)
parseGroups(st) ==
    IF st.rem = <<>> \/ st.err # NoError THEN st
    ELSE parseGroups(parseGroup(st.rem, st.d))

\* The end of time.ParseDuration: the sign, and d > 1<<63-1 for a result
\* that is not negative.
signedDuration(g, neg) ==
    IF g.err # NoError THEN [d |-> Zero, neg |-> FALSE, err |-> g.err]
    ELSE IF neg THEN [d |-> g.d, neg |-> g.d # Zero, err |-> NoError]
    ELSE IF Gt(g.d, Sub(Lim63, One))
    THEN [d |-> Zero, neg |-> FALSE, err |-> "invalid duration"]
    ELSE [d |-> g.d, neg |-> FALSE, err |-> NoError]

\* time.ParseDuration: [d |-> magnitude, neg |-> sign, err |-> error].
ParseDuration(str) ==
    LET signed == str # <<>> /\ Head(str) \in {"-", "+"}
        neg == signed /\ Head(str) = "-"
        s == IF signed THEN Tail(str) ELSE str
    IN IF s = <<"0">> THEN [d |-> Zero, neg |-> FALSE, err |-> NoError]
       ELSE IF s = <<>> THEN [d |-> Zero, neg |-> FALSE, err |-> "invalid duration"]
       ELSE signedDuration(parseGroups([d |-> Zero, rem |-> s, err |-> NoError]), neg)

\* time.Hour
Hour == [d |-> HourNs, neg |-> FALSE, err |-> NoError]

\* int(d.Seconds()), where Seconds is float64(sec) + float64(nsec)/1e9 for
\* sec = d / Second and nsec = d % Second: the sign and the magnitude.
Seconds(parts) ==
    F64Add(F64FromNat(parts.q), F64Div(F64FromNat(parts.r), F64FromNat(SecondNs)))

SignedInt(neg, n) == [neg |-> neg /\ n # Zero, n |-> n]

IntSeconds(dur) == SignedInt(dur.neg, F64Trunc(Seconds(DivMod(dur.d, SecondNs))))

DigitChar(d) ==
    CASE d = 0 -> "0" [] d = 1 -> "1" [] d = 2 -> "2" [] d = 3 -> "3" [] d = 4 -> "4"
      [] d = 5 -> "5" [] d = 6 -> "6" [] d = 7 -> "7" [] d = 8 -> "8" [] d = 9 -> "9"

\* The next decimal digit of st.n, before those of st.s.
DecimalDigit(st, d) == [n |-> d.q, s |-> DigitChar(Limb(d.r, 1)) \o st.s]

DecimalStep(st) == DecimalDigit(st, DivMod(st.n, NatOf(10)))

RECURSIVE DecimalFrom(_)
DecimalFrom(st) == IF st.n = <<>> THEN st.s ELSE DecimalFrom(DecimalStep(st))

\* The decimal digits of n, none for zero.
Decimal(n) == DecimalFrom([n |-> n, s |-> ""])

\* The verb %d of fmt.Sprintf.
FormatInt(i) ==
    IF i.n = Zero THEN "0" ELSE (IF i.neg THEN "-" ELSE "") \o Decimal(i.n)

\* fmt.Sprintf("public, max-age=%d", n)
CacheControlOf(i) == "public, max-age=" \o FormatInt(i)

\* --------------------------------------------------------------------- Page

\* A cache lifetime string, as its bytes: 1h, 90s, 1500ms, 1.5m, -2m, 0, the
\* empty string, 10, 5x, s, one microsecond written with U+00B5,
\* 16777216.999999999s, 0.9999999999999999s and 9223372037s.
CacheTTLs ==
    { <<"1", "h">>, <<"9", "0", "s">>, <<"1", "5", "0", "0", "m", "s">>,
      <<"1", ".", "5", "m">>, <<"-", "2", "m">>, <<"0">>, <<>>, <<"1", "0">>,
      <<"5", "x">>, <<"s">>, <<"1", "C2", "B5", "s">>,
      <<"1", "6", "7", "7", "7", "2", "1", "6", ".",
        "9", "9", "9", "9", "9", "9", "9", "9", "9", "s">>,
      <<"0", ".", "9", "9", "9", "9", "9", "9", "9", "9",
        "9", "9", "9", "9", "9", "9", "9", "9", "s">>,
      <<"9", "2", "2", "3", "3", "7", "2", "0", "3", "7", "s">> }

\* The Page descriptors the model draws from.  Payload is the fixed data a
\* Page without a backend is served from.
Pages ==
    [ Name : {"page"},
      Template : {"t1", "t2"},
      Layout : {"", "l1"},
      CacheTTL : CacheTTLs,
      BackendURLPattern : {"", "/api/x"},
      IsArray : BOOLEAN,
      Payload : {"extra1", "extra2"} ]

\* The Page of Handler h in the protocol model: all Handlers serve template
\* t1; every third one composes it with layout l1, every second one is fed
\* by a backend.
PageOf(h) ==
    [ Name |-> "page",
      Template |-> "t1",
      Layout |-> IF h % 3 = 0 THEN "l1" ELSE "",
      CacheTTL |-> <<"1", "h">>,
      BackendURLPattern |-> IF h % 2 = 0 THEN "/api/x" ELSE "",
      IsArray |-> h % 4 = 0,
      Payload |-> "extra1" ]

\* ----------------------------------------------------------------- Renderer

\* A Renderer is an interface value: the dynamic type word and the data word.
NilRenderer == [tab |-> "nil", data |-> 0]

\* The no-op renderer every HandlerConfig starts with.
EmptyRenderer == [tab |-> "EmptyRenderer", data |-> 0]

\* ------------------------------------------------------- ResponseGenerator

\* StaticResponseGenerator{page}.ResponseGenerator
StaticResponseGenerator(page) ==
    [kind |-> "static", page |-> page, client |-> "", decoder |-> ""]

\* DynamicResponseGenerator{page, CachedClient(pattern), decoder}.ResponseGenerator
DynamicResponseGenerator(page, client, decoder) ==
    [kind |-> "dynamic", page |-> page, client |-> client, decoder |-> decoder]

\* Page{}
ZeroPage ==
    [ Name |-> "", Template |-> "", Layout |-> "", CacheTTL |-> <<>>,
      BackendURLPattern |-> "", IsArray |-> FALSE, Payload |-> "" ]

NoopResponse == [kind |-> "noop", page |-> ZeroPage, client |-> "", decoder |-> ""]

\* What the backend may answer to a fetch: a transport error, or a status
\* with a body that is a JSON object, a JSON array or not JSON.
BackendResponses ==
    { [err |-> "transport", status |-> 0, body |-> ""],
      [err |-> NoError, status |-> 500, body |-> "object"],
      [err |-> NoError, status |-> 200, body |-> "object"],
      [err |-> NoError, status |-> 200, body |-> "array"],
      [err |-> NoError, status |-> 200, body |-> "garbage"] }

NoData == [shape |-> "none", value |-> ""]

\* generate(request): the data to render, the error, and the fetches made.
\* resp is the backend's answer, read only by the dynamic generator.
Generate(rg, resp) ==
    IF rg.kind = "static"
    THEN [data |-> [shape |-> "payload", value |-> rg.page.Payload],
          err |-> NoError, fetches |-> 0]
    ELSE IF rg.kind = "noop"
    THEN [data |-> NoData, err |-> NoError, fetches |-> 0]
    ELSE IF resp.err # NoError
    THEN [data |-> NoData, err |-> "transport", fetches |-> 1]
    ELSE IF resp.status # 200
    THEN [data |-> NoData, err |-> "status", fetches |-> 1]
    ELSE IF (rg.decoder = "JSONDecoder" /\ resp.body = "object")
            \/ (rg.decoder = "JSONArrayDecoder" /\ resp.body = "array")
    THEN [data |-> [shape |-> resp.body, value |-> rg.client],
          err |-> NoError, fetches |-> 1]
    ELSE [data |-> NoData, err |-> "decode", fetches |-> 1]

\* ------------------------------------------------------------ HandlerConfig

DefaultHandlerConfig ==
    [ Page |-> ZeroPage,
      Renderer |-> EmptyRenderer,
      ResponseGenerator |-> NoopResponse,
      CacheControl |-> "public, max-age=3600" ]

\* d, or time.Hour when ParseDuration returned an error.
DurationOrHour(parsed) == IF parsed.err # NoError THEN Hour ELSE parsed

\* cacheTTL := fmt.Sprintf("public, max-age=%d", int(d.Seconds()))
CacheTTLOf(page) ==
    CacheControlOf(IntSeconds(DurationOrHour(ParseDuration(page.CacheTTL))))

\* HandlerConfigOf that chooses the generator by the array flag.
HandlerConfigByArray(page, cacheTTL) ==
    IF ~page.IsArray
    THEN [ Page |-> page,
           Renderer |-> DefaultHandlerConfig.Renderer,
           ResponseGenerator |-> StaticResponseGenerator(page),
           CacheControl |-> cacheTTL ]
    ELSE [ Page |-> page,
           Renderer |-> DefaultHandlerConfig.Renderer,
           ResponseGenerator |->
               DynamicResponseGenerator(page, page.BackendURLPattern, "JSONArrayDecoder"),
           CacheControl |-> cacheTTL ]

NewHandlerConfigByArray(page) == HandlerConfigByArray(page, CacheTTLOf(page))

\* The HandlerConfig of a Page and its Cache-Control value: the generator
\* is static for an empty backend URL pattern, dynamic otherwise.
HandlerConfigOf(page, cacheTTL) ==
    IF page.BackendURLPattern = ""
    THEN [ Page |-> page,
           Renderer |-> DefaultHandlerConfig.Renderer,
           ResponseGenerator |-> StaticResponseGenerator(page),
           CacheControl |-> cacheTTL ]
    ELSE LET decoder == IF page.IsArray THEN "JSONArrayDecoder" ELSE "JSONDecoder"
         IN [ Page |-> page,
              Renderer |-> DefaultHandlerConfig.Renderer,
              ResponseGenerator |->
                  DynamicResponseGenerator(page, page.BackendURLPattern, decoder),
              CacheControl |-> cacheTTL ]

NewHandlerConfig(page) == HandlerConfigOf(page, CacheTTLOf(page))

\* ------------------------------------------------------------------ Handler

\* NewHandler that leaves the Renderer field unset.
NewHandlerNoRenderer(cfg) ==
    [ Page |-> cfg.Page,
      Renderer |-> NilRenderer,
      ResponseGenerator |-> cfg.ResponseGenerator,
      CacheControl |-> cfg.CacheControl ]

\* NewHandler: the Handler's fields.  Its Input channel is unbuffered and has
\* no state of its own; Subscribe is the one registration channel.
NewHandler(cfg) ==
    [ Page |-> cfg.Page,
      Renderer |-> cfg.Renderer,
      ResponseGenerator |-> cfg.ResponseGenerator,
      CacheControl |-> cfg.CacheControl ]

\* A topic with the template named before the layout.
TopicTemplateFirst(page) ==
    IF page.Layout # "" THEN page.Template \o "-:-" \o page.Layout ELSE page.Template

\* The topic updateRenderer computes before its loop.
Topic(page) ==
    IF page.Layout # "" THEN page.Layout \o "-:-" \o page.Template ELSE page.Template

\* ------------------------------------------------------------------- state

VARIABLES
    handler,      \* handler[h]: the fields of Handler h
    hpc,          \* hpc[h]: where h's updateRenderer goroutine stands
    recv,         \* recv[h]: the Renderer h received last on its Input
    subscribers,  \* Broker: the accepted Subscriptions not yet served, in order
    sending,      \* Broker: the last broadcast, [topic, r, to, outs]: the Renderer, the
                  \* delivery channels it goes to, and those still to be sent to
    version,      \* Broker: the number of broadcasts so far
    accepted,     \* accepted[h]: Subscriptions of h the Broker has accepted
    delivered,    \* delivered[h]: Renderers h has received on its Input
    req,          \* the request in flight through some Handler's HandlerFunc
    partial,      \* a partialProvider, with the outcome of the last Get on it
    compile,      \* a Config and its files, with the outcome of NewMustacheRendererMap
    config,       \* a Page, with the HandlerConfig built from it and a generate call
    render        \* a LayoutMustacheRenderer and a value, with the outcome of Render

protoVars == <<handler, hpc, recv, subscribers, sending, version, accepted, delivered>>
pureVars == <<partial, compile, config, render>>

\* Subscription{topic, h.Input}: the delivery channel is named by its owner.
Subscription(topic, h) == [Name |-> topic, In |-> h]

NoRequest ==
    [ h |-> 0, pc |-> "idle", data |-> NoData, err |-> NoError, abort |-> 0,
      header |-> "", used |-> NilRenderer, genCalls |-> 0, renderCalls |-> 0,
      fetches |-> 0, received |-> 0, stored |-> 0, renderErr |-> NoError,
      wrote |-> FALSE,
      old |-> NilRenderer, new |-> NilRenderer ]

Idle == [topic |-> "", r |-> NilRenderer, to |-> <<>>, outs |-> <<>>]

\* The goroutines are started and the Broker has seen nothing yet.
InitLoops ==
    /\ hpc = [h \in Handlers |-> "subscribe"]
    /\ recv = [h \in Handlers |-> NilRenderer]
    /\ subscribers = <<>>
    /\ sending = Idle
    /\ version = 0
    /\ accepted = [h \in Handlers |-> 0]
    /\ delivered = [h \in Handlers |-> 0]
    /\ req = NoRequest

InitHandlers ==
    /\ handler = [h \in Handlers |-> NewHandler(NewHandlerConfig(PageOf(h)))]
    /\ InitLoops

\* The Pages of the Handlers, each with any template and with or without a
\* layout; the other fields stay those of PageOf.
TopicChoices == {"t1", "t2"} \X {"", "l1"}

InitAnyTopic ==
    /\ \E tl \in [Handlers -> TopicChoices] :
          handler = [h \in Handlers |->
                       NewHandler(NewHandlerConfig(
                           [PageOf(h) EXCEPT !.Template = tl[h][1], !.Layout = tl[h][2]]))]
    /\ InitLoops

\* --------------------------------------------------- Handler.updateRenderer

\* A loop that subscribes once and then only receives.
updateRendererNoResubscribe(pc) ==
    CASE pc = "subscribe" -> "receive"
      [] pc = "receive" -> "assign"
      [] pc = "assign" -> "receive"

\* A goroutine that ends once its Subscription is sent.
updateRendererSendOnly(pc) ==
    CASE pc = "subscribe" -> "exit"
      [] pc = "receive" -> "assign"
      [] pc = "assign" -> "subscribe"

\* The loop body: send the Subscription, receive on Input, store the Renderer.
updateRendererNext(pc) ==
    CASE pc = "subscribe" -> "receive"
      [] pc = "receive" -> "assign"
      [] pc = "assign" -> "subscribe"

\* A send that also puts the Renderer of the HandlerConfig back.
SendSubscriptionResetting(h) ==
    /\ hpc[h] = "subscribe"
    /\ subscribers' = Append(subscribers, Subscription(Topic(handler[h].Page), h))
    /\ accepted' = [accepted EXCEPT ![h] = @ + 1]
    /\ handler' = [handler EXCEPT ![h].Renderer = DefaultHandlerConfig.Renderer]
    /\ hpc' = [hpc EXCEPT ![h] = updateRendererNext(hpc[h])]
    /\ UNCHANGED <<recv, sending, version, delivered, req, pureVars>>

\* h.Subscribe <- Subscription{topic, h.Input}: the send completes when the
\* Broker takes the Subscription off the unbuffered registration channel.
SendSubscription(h) ==
    /\ hpc[h] = "subscribe"
    /\ subscribers' = Append(subscribers, Subscription(Topic(handler[h].Page), h))
    /\ accepted' = [accepted EXCEPT ![h] = @ + 1]
    /\ hpc' = [hpc EXCEPT ![h] = updateRendererNext(hpc[h])]
    /\ UNCHANGED <<handler, recv, sending, version, delivered, req, pureVars>>

\* A receive whose value is dropped instead of stored.
StoreRendererDropped(h) ==
    /\ hpc[h] = "assign"
    /\ hpc' = [hpc EXCEPT ![h] = updateRendererNext(hpc[h])]
    /\ UNCHANGED <<handler, recv, subscribers, sending, version, accepted, delivered, req,
                   pureVars>>

\* h.Renderer = <-h.Input, the store that follows the receive.
StoreRenderer(h) ==
    /\ hpc[h] = "assign"
    /\ handler' = [handler EXCEPT ![h].Renderer = recv[h]]
    /\ hpc' = [hpc EXCEPT ![h] = updateRendererNext(hpc[h])]
    /\ UNCHANGED <<recv, subscribers, sending, version, accepted, delivered, req, pureVars>>

\* ------------------------------------------------------------------ Broker

\* The topics the Broker compiles: those of the Pages, and template t2 that
\* no Page uses.
Topics == {Topic(handler[h].Page) : h \in Handlers} \cup {"t2"}

IsLayoutTopic(t) ==
    \E h \in Handlers : handler[h].Page.Layout # "" /\ Topic(handler[h].Page) = t

\* The Renderer compiled for topic t in recompilation cycle v.
CompiledRenderer(t, v) ==
    [tab |-> IF IsLayoutTopic(t) THEN "LayoutMustacheRenderer" ELSE "MustacheRenderer",
     data |-> v]

RECURSIVE SelectTopic(_, _)
SelectTopic(subs, t) ==
    IF subs = <<>> THEN <<>>
    ELSE IF Head(subs).Name = t THEN <<Head(subs).In>> \o SelectTopic(Tail(subs), t)
    ELSE SelectTopic(Tail(subs), t)

RECURSIVE DropTopic(_, _)
DropTopic(subs, t) ==
    IF subs = <<>> THEN <<>>
    ELSE IF Head(subs).Name = t THEN DropTopic(Tail(subs), t)
    ELSE <<Head(subs)>> \o DropTopic(Tail(subs), t)

\* A recompilation cycle for topic t: the pending Subscriptions of the topic
\* are consumed and each is to be sent the new Renderer.
Broadcast(t) ==
    /\ sending.outs = <<>>
    /\ version < MaxBroadcasts
    /\ version' = version + 1
    /\ sending' = [topic |-> t, r |-> CompiledRenderer(t, version + 1),
                   to |-> SelectTopic(subscribers, t),
                   outs |-> SelectTopic(subscribers, t)]
    /\ subscribers' = DropTopic(subscribers, t)
    /\ UNCHANGED <<handler, hpc, recv, accepted, delivered, req, pureVars>>

\* The Broker's send on a delivery channel meets the owner's receive.
Deliver ==
    /\ sending.outs # <<>>
    /\ LET h == Head(sending.outs)
       IN /\ hpc[h] = "receive"
          /\ recv' = [recv EXCEPT ![h] = sending.r]
          /\ delivered' = [delivered EXCEPT ![h] = @ + 1]
          /\ hpc' = [hpc EXCEPT ![h] = updateRendererNext(hpc[h])]
    /\ sending' = [sending EXCEPT !.outs = Tail(@)]
    /\ UNCHANGED <<handler, subscribers, version, accepted, req, pureVars>>

\* ------------------------------------------------------ Handler.HandlerFunc

\* The values a read of h.Renderer can return.  The read is not ordered
\* against the store of updateRenderer: while a received Renderer awaits its
\* store, the two words of the interface value may come from either side.
\* A read that has no value until the loop has stored a delivered Renderer.
ReadRendererAfterDelivery(h) ==
    IF hpc[h] = "assign" \/ delivered[h] = 0 THEN {} ELSE {handler[h].Renderer}

ReadRenderer(h) ==
    IF hpc[h] = "assign"
    THEN LET old == handler[h].Renderer
             new == recv[h]
         IN {old, new, [tab |-> old.tab, data |-> new.data], [tab |-> new.tab, data |-> old.data]}
    ELSE {handler[h].Renderer}

WellFormed(r) ==
    \/ r = EmptyRenderer
    \/ r.tab \in {"MustacheRenderer", "LayoutMustacheRenderer"} /\ r.data >= 1

\* What Render can do with a Renderer: return nil or an error; a call through a
\* nil or a torn interface value is undefined.
RenderOutcomes(r) ==
    IF WellFormed(r) THEN {"ok", "error"}
    ELSE IF r = NilRenderer THEN {"crash"}
    ELSE {"ok", "error", "crash"}

\* A request enters HandlerFunc of h, which calls h.ResponseGenerator(c).
CallGenerator(r, h) ==
    [NoRequest EXCEPT !.h = h, !.pc = "generating", !.genCalls = 1]

\* HandlerFunc that sets the header before it looks at the error.
AfterGeneratorHeaderFirst(r, hd, out) ==
    IF out.err # NoError
    THEN [r EXCEPT !.err = out.err, !.fetches = out.fetches, !.header = hd.CacheControl,
                   !.abort = 500, !.pc = "done"]
    ELSE [r EXCEPT !.data = out.data, !.fetches = out.fetches,
                   !.header = hd.CacheControl, !.pc = "rendering"]

\* The generator has returned out: abort on error, else set the header.
AfterGenerator(r, hd, out) ==
    IF out.err # NoError
    THEN [r EXCEPT !.err = out.err, !.fetches = out.fetches, !.abort = 500, !.pc = "done"]
    ELSE [r EXCEPT !.data = out.data, !.fetches = out.fetches,
                   !.header = hd.CacheControl, !.pc = "rendering"]

\* HandlerFunc that ignores the error of Render.
AfterRenderIgnoringError(r, outcome) ==
    IF outcome = "crash" THEN [r EXCEPT !.pc = "crashed"]
    ELSE IF outcome = "error" THEN [r EXCEPT !.renderErr = "render", !.pc = "done"]
    ELSE [r EXCEPT !.pc = "done"]

\* Render has returned: c.AbortWithError(http.StatusInternalServerError, err)
\* on an error, and HandlerFunc returns.
AfterRender(r, outcome) ==
    IF outcome = "crash" THEN [r EXCEPT !.pc = "crashed"]
    ELSE IF outcome = "error"
    THEN [r EXCEPT !.renderErr = "render", !.abort = 500, !.pc = "done"]
    ELSE [r EXCEPT !.pc = "done"]

HandlerFuncCall(h) ==
    /\ req.pc \in {"idle", "done", "crashed"}
    /\ req' = CallGenerator(req, h)
    /\ UNCHANGED <<protoVars, pureVars>>

GeneratorReturn ==
    /\ req.pc = "generating"
    /\ \E resp \in BackendResponses :
          req' = AfterGenerator(req, handler[req.h],
                                Generate(handler[req.h].ResponseGenerator, resp))
    /\ UNCHANGED <<protoVars, pureVars>>

\* h.Renderer.Render(c.Writer, result) is entered: the read of h.Renderer.
\* received and stored record how many Renderers h had received, and how many
\* of them it had stored, when the read happened; old is the Renderer the
\* field held then and new the last one h had received.
RenderCall ==
    /\ req.pc = "rendering"
    /\ \E used \in ReadRenderer(req.h) :
          req' = [req EXCEPT
                     !.used = used,
                     !.renderCalls = @ + 1,
                     !.pc = "render",
                     !.received = delivered[req.h],
                     !.old = handler[req.h].Renderer,
                     !.new = IF delivered[req.h] = 0 THEN handler[req.h].Renderer
                             ELSE recv[req.h],
                     !.stored = delivered[req.h] - (IF hpc[req.h] = "assign" THEN 1 ELSE 0)]
    /\ UNCHANGED <<protoVars, pureVars>>

\* Render returns, with or without an error.  It writes to c.Writer while it
\* runs, so that part of the response may have gone out by then, also when
\* it returns an error.
RenderReturn ==
    /\ req.pc = "render"
    /\ \E outcome \in RenderOutcomes(req.used), wrote \in BOOLEAN :
          req' = [AfterRender(req, outcome) EXCEPT !.wrote = wrote]
    /\ UNCHANGED <<protoVars, pureVars>>

\* --------------------------------------------------------- partialProvider

PartialNames == {"x", "api2html/debug"}

\* What a mustache.PartialProvider may answer to Get: text and error.
ProviderAnswers ==
    { [data |-> "", err |-> NoError],
      [data |-> "hello", err |-> NoError],
      [data |-> "debugger", err |-> NoError],
      [data |-> "", err |-> "not found"],
      [data |-> "partial read", err |-> "io"] }

Providers == [PartialNames -> ProviderAnswers]

\* Get that asks the dynamic pool first.
GetDynamicFirst(sp, name) ==
    LET d == sp.dynamc[name]
    IN IF d.err = NoError /\ d.data # ""
       THEN [data |-> d.data, err |-> NoError, asked |-> <<"dynamc">>]
       ELSE LET s == sp.statics[name]
            IN [data |-> s.data, err |-> s.err, asked |-> <<"dynamc", "statics">>]

\* Get that accepts an empty static text.
GetEmptyStatic(sp, name) ==
    LET s == sp.statics[name]
    IN IF s.err = NoError
       THEN [data |-> s.data, err |-> NoError, asked |-> <<"statics">>]
       ELSE LET d == sp.dynamc[name]
            IN [data |-> d.data, err |-> d.err, asked |-> <<"statics", "dynamc">>]

\* partialProvider.Get: the answer, and the pools asked, in order.
Get(sp, name) ==
    LET s == sp.statics[name]
    IN IF s.err = NoError /\ s.data # ""
       THEN [data |-> s.data, err |-> NoError, asked |-> <<"statics">>]
       ELSE LET d == sp.dynamc[name]
            IN [data |-> d.data, err |-> d.err, asked |-> <<"statics", "dynamc">>]

NoGet == [name |-> "", data |-> "", err |-> NoError, asked |-> <<>>]

\* customPartialProvider: the compiled-in debug partial, and the files.
customPartialProvider ==
    [ statics |-> [n \in PartialNames |->
                     IF n = "api2html/debug" THEN [data |-> "debugger", err |-> NoError]
                     ELSE [data |-> "", err |-> NoError]],
      dynamc |-> [n \in PartialNames |-> [data |-> "", err |-> "not found"]] ]

IdlePartial == partial = [sp |-> customPartialProvider, out |-> NoGet]

InitPartial ==
    \E st \in Providers, dy \in Providers :
        partial = [sp |-> [statics |-> st, dynamc |-> dy], out |-> NoGet]

GetPartial(name) ==
    /\ partial' = [partial EXCEPT !.out = [name |-> name] @@ Get(partial.sp, name)]
    /\ UNCHANGED <<protoVars, req, compile, config, render>>

\* --------------------------------------------------- NewMustacheRendererMap

TemplateNames == {"a", "b"}
LayoutNames == {"a", "l"}
Paths == {"p1", "p2", "p3"}

\* A file: cannot be opened, cannot be read, does not parse, or compiles.
FileKinds == {"missing", "unreadable", "malformed", "ok"}

\* The name -> path maps of a section: the functions from some of the names.
Sections(names) == UNION {[d -> Paths] : d \in SUBSET names}

\* The orders in which a range over a Go map may visit its keys.
Orders(keys) ==
    {o \in [1..Cardinality(keys) -> keys] : \A i, j \in 1..Cardinality(keys) : o[i] = o[j] => i = j}

\* newMustacheTemplate on the opened file at path: the template, or the error
\* of ioutil.ReadAll or of the parse.
newMustacheTemplate(files, path) ==
    IF files[path] = "unreadable" THEN [tmpl |-> "", err |-> "read"]
    ELSE IF files[path] = "malformed" THEN [tmpl |-> "", err |-> "parse"]
    ELSE [tmpl |-> path, err |-> NoError]

NewMustacheRenderer(files, path) ==
    LET t == newMustacheTemplate(files, path)
    IN IF t.err # NoError THEN [renderer |-> "", err |-> t.err]
       ELSE [renderer |-> <<"MustacheRenderer", t.tmpl>>, err |-> NoError]

\* A loop that remembers the error and goes on with the next entry.
RECURSIVE RendererMapLoopContinue(_, _, _)
RendererMapLoopContinue(files, entries, acc) ==
    IF entries = <<>> THEN acc
    ELSE LET name == Head(entries)[1]
             path == Head(entries)[2]
         IN IF files[path] = "missing"
            THEN RendererMapLoopContinue(files, Tail(entries),
                    [acc EXCEPT !.err = "open", !.opened = @ + 1])
            ELSE LET r == NewMustacheRenderer(files, path)
                 IN IF r.err # NoError
                    THEN RendererMapLoopContinue(files, Tail(entries),
                            [acc EXCEPT !.err = r.err, !.opened = @ + 1])
                    ELSE RendererMapLoopContinue(files, Tail(entries),
                            [acc EXCEPT !.result = (name :> r.renderer) @@ @,
                                        !.opened = @ + 1])

\* One step of the loops of NewMustacheRendererMap: entries are the (name,
\* path) pairs still to visit; acc is the result map, the files opened so far
\* and the error.
RECURSIVE RendererMapLoop(_, _, _)
RendererMapLoop(files, entries, acc) ==
    IF entries = <<>> THEN acc
    ELSE LET name == Head(entries)[1]
             path == Head(entries)[2]
         IN IF files[path] = "missing"
            THEN [acc EXCEPT !.err = "open", !.opened = @ + 1]
            ELSE LET r == NewMustacheRenderer(files, path)
                 IN IF r.err # NoError
                    THEN [acc EXCEPT !.err = r.err, !.opened = @ + 1]
                    ELSE RendererMapLoop(files, Tail(entries),
                            [acc EXCEPT !.result = (name :> r.renderer) @@ @,
                                        !.opened = @ + 1])

EntriesOf(section, order) == [i \in DOMAIN order |-> <<order[i], section[order[i]]>>]

\* NewMustacheRendererMap(cfg), the templates visited in order tOrder and
\* then the layouts in order lOrder.
NewMustacheRendererMap(cfg, files, tOrder, lOrder) ==
    LET entries == EntriesOf(cfg.Templates, tOrder) \o EntriesOf(cfg.Layouts, lOrder)
    IN [entries |-> entries]
       @@ RendererMapLoop(files, entries, [result |-> <<>>, err |-> NoError, opened |-> 0])

NoCompile == [entries |-> <<>>, result |-> <<>>, err |-> NoError, opened |-> 0, done |-> FALSE]

IdleCompile ==
    compile = [cfg |-> [Templates |-> <<>>, Layouts |-> <<>>],
               files |-> [p \in Paths |-> "ok"], out |-> NoCompile]

InitCompile ==
    \E t \in Sections(TemplateNames), l \in Sections(LayoutNames), f \in [Paths -> FileKinds] :
        compile = [cfg |-> [Templates |-> t, Layouts |-> l], files |-> f, out |-> NoCompile]

CompileAll ==
    /\ ~compile.out.done
    /\ \E tOrder \in Orders(DOMAIN compile.cfg.Templates),
          lOrder \in Orders(DOMAIN compile.cfg.Layouts) :
          compile' = [compile EXCEPT !.out =
                         [done |-> TRUE]
                         @@ NewMustacheRendererMap(compile.cfg, compile.files, tOrder, lOrder)]
    /\ UNCHANGED <<protoVars, req, partial, config, render>>

\* --------------------------------------------------------- NewHandlerConfig

NoGenerate == [data |-> NoData, err |-> NoError, fetches |-> 0, calls |-> 0]

IdleConfig ==
    config = [page |-> PageOf(1), built |-> FALSE, cfg |-> DefaultHandlerConfig,
              out |-> NoGenerate]

InitConfig ==
    \E page \in Pages :
        config = [page |-> page, built |-> FALSE, cfg |-> DefaultHandlerConfig,
                  out |-> NoGenerate]

BuildConfig ==
    /\ ~config.built
    /\ config' = [config EXCEPT !.built = TRUE, !.cfg = NewHandlerConfig(config.page)]
    /\ UNCHANGED <<protoVars, req, partial, compile, render>>

\* A request is served by the generator of the built HandlerConfig.
GenerateCall ==
    /\ config.built
    /\ \E resp \in BackendResponses :
          config' = [config EXCEPT !.out =
                        [calls |-> 1] @@ Generate(config.cfg.ResponseGenerator, resp)]
    /\ UNCHANGED <<protoVars, req, partial, compile, render>>

\* ------------------------------------------- LayoutMustacheRenderer.Render

\* A compiled template is its sequence of elements: literal text, a variable
\* tag, or an element whose rendering fails.  The values are plain text, which
\* escaping leaves as it is.
Text(t) == [kind |-> "text", v |-> t]
Var(name) == [kind |-> "var", v |-> name]
Fail == [kind |-> "fail", v |-> ""]

\* The value of name in a context chain: that of the first context that has
\* it, and the empty text when none has.
RECURSIVE Lookup(_, _)
Lookup(chain, name) ==
    IF chain = <<>> THEN ""
    ELSE IF name \in DOMAIN Head(chain) THEN Head(chain)[name]
    ELSE Lookup(Tail(chain), name)

\* Template.FRender onto w: the elements are written in order, up to the
\* first one that fails.
RECURSIVE FRender(_, _, _)
FRender(w, tmpl, chain) ==
    IF tmpl = <<>> THEN [w |-> w, err |-> NoError]
    ELSE IF Head(tmpl).kind = "fail" THEN [w |-> w, err |-> "render"]
    ELSE IF Head(tmpl).kind = "text" THEN FRender(w \o Head(tmpl).v, Tail(tmpl), chain)
    ELSE FRender(w \o Lookup(chain, Head(tmpl).v), Tail(tmpl), chain)

\* Template.FRenderInLayout: the template is rendered to a string, and the
\* layout is rendered with a context holding it as "content" in front of the
\* caller's contexts.  An error of the template ends the call.
FRenderInLayout(w, tmpl, layout, chain) ==
    LET content == FRender("", tmpl, chain)
    IN IF content.err # NoError THEN [w |-> w, err |-> content.err]
       ELSE FRender(w, layout, <<[content |-> content.w]>> \o chain)

\* What a reader gives: an error of the read, a text that does not parse, or
\* the text of a template.
ReaderKinds == FileKinds \ {"missing"}

\* The nil *LayoutMustacheRenderer.
NilLayoutRenderer == [tmpl |-> <<>>, layout |-> <<>>]

\* NewLayoutMustacheRenderer(t, l): the template is compiled before the
\* layout, and the first error is returned with a nil renderer.  A reader is
\* named by the template its text stands for, and readers tells what each
\* of the two gives.
NewLayoutMustacheRenderer(readers, t, l) ==
    LET tmpl == newMustacheTemplate(readers, t)
        layout == newMustacheTemplate(readers, l)
    IN IF tmpl.err # NoError THEN [renderer |-> NilLayoutRenderer, err |-> tmpl.err]
       ELSE IF layout.err # NoError THEN [renderer |-> NilLayoutRenderer, err |-> layout.err]
       ELSE [renderer |-> [tmpl |-> tmpl.tmpl, layout |-> layout.tmpl], err |-> NoError]

\* A Render that renders the layout inside the template.
LayoutRenderReversed(m, w, v) == FRenderInLayout(w, m.layout, m.tmpl, <<v>>)

\* LayoutMustacheRenderer.Render
LayoutRender(m, w, v) == FRenderInLayout(w, m.tmpl, m.layout, <<v>>)

InnerTemplates ==
    { <<Text("body")>>, <<Text("h:"), Var("title")>>, <<Var("content"), Text("!")>>,
      <<Text("b"), Fail>> }

LayoutTemplates ==
    { <<Text("["), Var("content"), Text("]")>>, <<Var("title"), Text("|"), Var("content")>>,
      <<Text("static")>>, <<Var("content"), Fail>> }

\* The data of a request: some of the names, with a text each.
RenderData == UNION {[d -> {"x", "y"}] : d \in SUBSET {"title", "content"}}

NoRender == [w |-> "", err |-> NoError, done |-> FALSE]

\* The two readers t and l, giving kt and kl.
Readers(t, l, kt, kl) == [r \in {t, l} |-> IF r = t THEN kt ELSE kl]

IdleRender ==
    render = [readers |-> Readers(<<>>, <<>>, "ok", "ok"),
              m |-> NewLayoutMustacheRenderer(Readers(<<>>, <<>>, "ok", "ok"), <<>>, <<>>),
              v |-> <<>>, out |-> NoRender]

InitRender ==
    \E t \in InnerTemplates, l \in LayoutTemplates, v \in RenderData, kt, kl \in ReaderKinds :
        render = [readers |-> Readers(t, l, kt, kl),
                  m |-> NewLayoutMustacheRenderer(Readers(t, l, kt, kl), t, l),
                  v |-> v, out |-> NoRender]

\* Render on the renderer that NewLayoutMustacheRenderer returned without an
\* error.
RenderInLayout ==
    /\ render.m.err = NoError
    /\ ~render.out.done
    /\ render' = [render EXCEPT !.out =
                     [done |-> TRUE] @@ LayoutRender(render.m.renderer, "", render.v)]
    /\ UNCHANGED <<protoVars, req, partial, compile, config>>

\* ----------------------------------------------------------- specification

vars == <<handler, hpc, recv, subscribers, sending, version, accepted, delivered, req,
          partial, compile, config, render>>

Init == InitHandlers /\ IdlePartial /\ IdleCompile /\ IdleConfig /\ IdleRender

Next ==
    \/ \E h \in Handlers : SendSubscription(h)
    \/ \E h \in Handlers : StoreRenderer(h)
    \/ \E t \in Topics : Broadcast(t)
    \/ Deliver
    \/ \E h \in Handlers : HandlerFuncCall(h)
    \/ GeneratorReturn
    \/ RenderCall
    \/ RenderReturn

\* The Handlers, the Broker and the requests.
Spec == Init /\ [][Next]_vars

\* partialProvider.Get on every pair of pools.
NextPartial == \E name \in PartialNames : GetPartial(name)
InitPartialSpec == InitHandlers /\ InitPartial /\ IdleCompile /\ IdleConfig /\ IdleRender
SpecPartial == InitPartialSpec /\ [][NextPartial]_vars

\* NewMustacheRendererMap on every declaration and every state of the files.
NextCompile == CompileAll
InitCompileSpec == InitHandlers /\ IdlePartial /\ InitCompile /\ IdleConfig /\ IdleRender
SpecCompile == InitCompileSpec /\ [][NextCompile]_vars

\* NewHandlerConfig on every Page, and the generator it binds.
NextConfig == BuildConfig \/ GenerateCall
InitConfigSpec == InitHandlers /\ IdlePartial /\ IdleCompile /\ InitConfig /\ IdleRender
SpecConfig == InitConfigSpec /\ [][NextConfig]_vars

\* The subscription loops and the Broker alone, under the scheduling the Go
\* runtime gives: a goroutine that can take its step takes it.  A broadcast is
\* triggered from outside and is not forced.
NextLoop ==
    \/ \E h \in Handlers : SendSubscription(h)
    \/ \E h \in Handlers : StoreRenderer(h)
    \/ \E t \in Topics : Broadcast(t)
    \/ Deliver

FairSpec ==
    /\ Init
    /\ [][NextLoop]_vars
    /\ \A h \in Handlers : WF_vars(SendSubscription(h))
    /\ \A h \in Handlers : WF_vars(StoreRenderer(h))
    /\ WF_vars(Deliver)

\* LayoutMustacheRenderer.Render on every template, layout and data.
NextRender == RenderInLayout
InitRenderSpec == InitHandlers /\ IdlePartial /\ IdleCompile /\ IdleConfig /\ InitRender
SpecRender == InitRenderSpec /\ [][NextRender]_vars

\* The subscription loops and the Broker, for Handlers of every topic.
InitTopicSpec == InitAnyTopic /\ IdlePartial /\ IdleCompile /\ IdleConfig /\ IdleRender
SpecTopic == InitTopicSpec /\ [][NextLoop]_vars

\* ------------------------------------------------------------------ claims

\* The registrations of h the Broker holds: accepted and not yet served.
RECURSIVE CountIn(_, _)
CountIn(outs, h) ==
    IF outs = <<>> THEN 0
    ELSE (IF Head(outs) = h THEN 1 ELSE 0) + CountIn(Tail(outs), h)

Outstanding(h) == CountIn(SelectTopic(subscribers, Topic(handler[h].Page)), h)
                  + CountIn(sending.outs, h)

SameTopic(h1, h2) == Topic(handler[h1].Page) = Topic(handler[h2].Page)

\* C1: Subscriptions are one-shot.  While a Handler waits on its Input it has
\* exactly one accepted Subscription that has not been served, and the
\* deliveries it has received are one per earlier Subscription; otherwise every
\* accepted Subscription has been served by exactly one delivery and the
\* Broker remembers none.
C1_OneShot ==
    \A h \in Handlers :
        /\ hpc[h] = "receive" => accepted[h] = delivered[h] + 1 /\ Outstanding(h) = 1
        /\ hpc[h] # "receive" => accepted[h] = delivered[h] /\ Outstanding(h) = 0

C1_Witness ==
    \E h \in Handlers : delivered[h] = 2 /\ accepted[h] = 3 /\ hpc[h] = "receive"

\* C2: after NewHandler the Renderer of a Handler is never nil, and neither is
\* any value a request can read from the field.
C2_RendererSet ==
    \A h \in Handlers :
        /\ handler[h].Renderer # NilRenderer
        /\ \A r \in ReadRenderer(h) : r.tab # "nil"

C2_Witness ==
    \E h \in Handlers :
        /\ delivered[h] = 2 /\ hpc[h] = "subscribe"
        /\ handler[h].Renderer.data = 2
        /\ req.h = h /\ req.pc = "rendering"

\* C3 as stated: a request is rendered only after its Handler has received
\* and stored a first delivered Renderer.
C3_AwaitsFirstDelivery ==
    req.renderCalls > 0 => req.received >= 1 /\ req.stored >= 1

\* C3 amended: NewHandler does not wait.  A request rendered before its
\* Handler has received any Renderer is rendered with the Renderer of the
\* HandlerConfig, the default one of NewHandlerConfig.
C3_RendersWithConfigRenderer ==
    (req.renderCalls > 0 /\ req.received = 0) =>
        /\ req.used = NewHandlerConfig(PageOf(req.h)).Renderer
        /\ req.used = DefaultHandlerConfig.Renderer

C3_Witness ==
    /\ req.pc = "done" /\ req.renderCalls = 1 /\ req.received = 0
    /\ accepted[req.h] = 0

\* Handler h has got Renderer r: stored, or received and about to be stored.
HasReceived(h, r) == handler[h].Renderer = r \/ recv[h] = r

\* C4 as stated: once the Broker has broadcast R for a topic and sent it to
\* every Subscription it held, any two Handlers of the topic have got R.  (R
\* is sent only in its own broadcast, so a Handler that has not got it by
\* then never will.)  Stated for Handlers that are already in the protocol,
\* each having received an earlier Renderer.
C4_BothObserve ==
    \A h1, h2 \in Handlers :
        (h1 # h2 /\ SameTopic(h1, h2)
         /\ delivered[h1] >= 1 /\ delivered[h2] >= 1
         /\ sending.topic = Topic(handler[h1].Page) /\ sending.outs = <<>>)
        => HasReceived(h1, sending.r) /\ HasReceived(h2, sending.r)

\* The Broker has just broadcast version v to the Subscriptions of h1 and h2.
BroadcastTo(v, h1, h2) ==
    /\ sending.r.data = v
    /\ CountIn(sending.outs, h1) = 1
    /\ CountIn(sending.outs, h2) = 1

\* C4 amended: two Handlers of one topic whose Subscriptions are both pending
\* when the Broker broadcasts R both eventually have R as their Renderer.
C4_PendingBothObserve ==
    \A h1, h2 \in Handlers : \A v \in 1..MaxBroadcasts :
        (h1 # h2 /\ SameTopic(h1, h2) /\ BroadcastTo(v, h1, h2))
        ~> (handler[h1].Renderer = CompiledRenderer(Topic(handler[h1].Page), v))

C4_Witness ==
    \E h1, h2 \in Handlers :
        /\ h1 # h2 /\ SameTopic(h1, h2)
        /\ handler[h1].Renderer.data = 2
        /\ handler[h2].Renderer = handler[h1].Renderer

\* C5: whenever the static pool answers without error and with non-empty
\* text, Get returns that text and no error whatever the dynamic pool holds,
\* and the dynamic pool is asked only when the static answer is an error or
\* empty.
C5_StaticWins ==
    partial.out.name # "" =>
        LET s == partial.sp.statics[partial.out.name]
        IN /\ (s.err = NoError /\ s.data # "") =>
                 /\ partial.out.data = s.data
                 /\ partial.out.err = NoError
                 /\ partial.out.asked = <<"statics">>
           /\ (\E i \in DOMAIN partial.out.asked : partial.out.asked[i] = "dynamc") =>
                 (s.err # NoError \/ s.data = "")
           /\ partial.out.asked[1] = "statics"

C5_Witness ==
    /\ partial.out.name = "x"
    /\ partial.sp.statics["x"] = [data |-> "hello", err |-> NoError]
    /\ partial.sp.dynamc["x"] = [data |-> "debugger", err |-> NoError]
    /\ partial.out.data = "hello"

\* C6: when the static pool answers with an error or with empty text, Get
\* returns the dynamic pool's answer unchanged, its text and its error.
C6_FallsThrough ==
    partial.out.name # "" =>
        LET s == partial.sp.statics[partial.out.name]
            d == partial.sp.dynamc[partial.out.name]
        IN (s.err # NoError \/ s.data = "") =>
              /\ partial.out.data = d.data
              /\ partial.out.err = d.err

C6_Witness ==
    /\ partial.out.name = "x"
    /\ partial.sp.statics["x"] = [data |-> "", err |-> NoError]
    /\ partial.sp.dynamc["x"] = [data |-> "hello", err |-> NoError]
    /\ partial.out.data = "hello" /\ partial.out.err = NoError

\* The declarations NewMustacheRendererMap visited, in order.
Declared == compile.out.entries

FileOk(i) == compile.files[Declared[i][2]] = "ok"

\* C7 as stated: a failure is fatal to its own template only, so every
\* declaration whose file is fine has its renderer in the map.
C7_FailureIsLocal ==
    compile.out.done =>
        \A i \in DOMAIN Declared : FileOk(i) => Declared[i][1] \in DOMAIN compile.out.result

\* C7 amended: the first failure ends the batch.  The call returns that error
\* with the renderers compiled before it; no later declaration is opened.
C7_FirstFailureEndsBatch ==
    compile.out.done =>
        LET n == compile.out.opened
        IN /\ (\E i \in DOMAIN Declared : ~FileOk(i)) <=> compile.out.err # NoError
           /\ compile.out.err # NoError =>
                 /\ n \in DOMAIN Declared /\ ~FileOk(n)
                 /\ \A i \in 1..(n - 1) : FileOk(i)
                 /\ DOMAIN compile.out.result = {Declared[i][1] : i \in 1..(n - 1)}
           /\ compile.out.err = NoError => n = Len(Declared)

C7_Witness ==
    /\ compile.out.done /\ compile.out.err = "parse"
    /\ compile.out.opened = 1 /\ Len(Declared) = 3
    /\ FileOk(2) /\ FileOk(3)
    /\ compile.out.result = <<>>

\* C8: when the generator returns an error the request is aborted with 500,
\* the Renderer is not invoked, nothing is written and no Cache-Control
\* header is set.
C8_GeneratorError ==
    req.err # NoError =>
        /\ req.pc = "done"
        /\ req.abort = 500
        /\ req.renderCalls = 0
        /\ ~req.wrote
        /\ req.header = ""

C8_Witness == req.pc = "done" /\ req.err = "status" /\ req.fetches = 1

\* C9: when the generator succeeds and Render returns an error the request
\* is aborted with 500, whatever Render had written by then; the generator
\* has run once and the Renderer once, and in no request does the generator
\* run twice or the Renderer more than once.
C9_RenderError ==
    /\ (req.err = NoError /\ req.renderErr # NoError) =>
          /\ req.pc = "done"
          /\ req.abort = 500
          /\ req.genCalls = 1
          /\ req.renderCalls = 1
    /\ req.pc # "idle" => req.genCalls = 1 /\ req.renderCalls <= 1

C9_Witness ==
    /\ req.pc = "done" /\ req.err = NoError /\ req.renderErr = "render"
    /\ req.used.data = 1 /\ req.wrote

\* C10: for a Page with an empty backend URL pattern NewHandlerConfig binds
\* the static generator, whose generate succeeds with the Page's payload and
\* no fetch whatever the request and the backend; a Page gets the dynamic
\* generator exactly when its pattern is not empty.
C10_StaticGenerator ==
    config.built =>
        /\ config.cfg.ResponseGenerator.kind = "dynamic" <=> config.page.BackendURLPattern # ""
        /\ config.page.BackendURLPattern = "" =>
              /\ config.cfg.ResponseGenerator = StaticResponseGenerator(config.page)
              /\ config.out.calls = 1 =>
                    /\ config.out.err = NoError
                    /\ config.out.data = [shape |-> "payload", value |-> config.page.Payload]
                    /\ config.out.fetches = 0

C10_Witness ==
    /\ config.built /\ config.page.BackendURLPattern = "" /\ config.page.IsArray
    /\ config.out.calls = 1 /\ config.out.data.value = "extra2"

\* The topic of a Page, read off its template and layout names.
TopicOfNames(p) ==
    IF p.Layout = "" THEN p.Template ELSE p.Layout \o "-:-" \o p.Template

\* C11: every Subscription a Handler sends names the template of its Page when
\* the Page has no layout, and layout, "-:-", template when it has one; the
\* Subscriptions a broadcast serves are those of its topic; and two Handlers
\* whose Pages have the same template and layout subscribe under one name.
C11_Topic ==
    /\ \A i \in DOMAIN subscribers :
          LET p == handler[subscribers[i].In].Page
          IN /\ p.Layout = "" => subscribers[i].Name = p.Template
             /\ p.Layout # "" => subscribers[i].Name = p.Layout \o "-:-" \o p.Template
    /\ \A k \in DOMAIN sending.to :
          TopicOfNames(handler[sending.to[k]].Page) = sending.topic
    /\ \A i, j \in DOMAIN subscribers :
          LET p == handler[subscribers[i].In].Page
              q == handler[subscribers[j].In].Page
          IN (p.Template = q.Template /\ p.Layout = q.Layout)
                 => subscribers[i].Name = subscribers[j].Name

\* Two Handlers whose Pages differ, but not in template and layout, have both
\* subscribed a second time, under the name made of layout and template.
C11_Witness ==
    \E i, j \in DOMAIN subscribers :
        LET h1 == subscribers[i].In
            h2 == subscribers[j].In
        IN /\ h1 # h2 /\ handler[h1].Page # handler[h2].Page
           /\ accepted[h1] = 2 /\ accepted[h2] = 2
           /\ subscribers[i].Name = "l1-:-t1" /\ subscribers[j].Name = "l1-:-t1"

\* The whole seconds of the lifetime strings that are durations: an hour,
\* ninety seconds, one and a half seconds, one and a half minutes, minus two
\* minutes, zero, a microsecond, a nanosecond less than 16777217 seconds, and
\* a tenth of a femtosecond less than a second.  The other strings are not
\* durations, or durations that do not fit in 64 bits.
WholeSeconds ==
    { <<<<"1", "h">>, "3600">>, <<<<"9", "0", "s">>, "90">>,
      <<<<"1", "5", "0", "0", "m", "s">>, "1">>, <<<<"1", ".", "5", "m">>, "90">>,
      <<<<"-", "2", "m">>, "-120">>, <<<<"0">>, "0">>,
      <<<<"1", "C2", "B5", "s">>, "0">>,
      <<<<"1", "6", "7", "7", "7", "2", "1", "6", ".",
          "9", "9", "9", "9", "9", "9", "9", "9", "9", "s">>, "16777216">>,
      <<<<"0", ".", "9", "9", "9", "9", "9", "9", "9", "9",
          "9", "9", "9", "9", "9", "9", "9", "9", "s">>, "0">> }

IsLifetime(ttl) == \E e \in WholeSeconds : e[1] = ttl

\* C12: the cache-control value of the HandlerConfig is "public, max-age=N"
\* with N the whole seconds of the Page's lifetime, and N = 3600 when the
\* lifetime string is not a duration, whether the generator bound is the
\* static or the dynamic one.
C12_CacheControl ==
    config.built =>
        /\ config.cfg.ResponseGenerator.kind \in {"static", "dynamic"}
        /\ \A e \in WholeSeconds :
              e[1] = config.page.CacheTTL =>
                  config.cfg.CacheControl = "public, max-age=" \o e[2]
        /\ ~IsLifetime(config.page.CacheTTL) =>
               config.cfg.CacheControl = "public, max-age=3600"

\* The renderer compiled from the file at path.
CompiledFrom(path) == NewMustacheRenderer(compile.files, path).renderer

\* C13: when NewMustacheRendererMap returns no error, every declared template
\* and every declared layout has the renderer compiled from its own file in
\* the map under its name; and when a declared file cannot be opened, read
\* or parsed the call returns an error.
C13_AllRenderers ==
    compile.out.done =>
        /\ compile.out.err = NoError =>
              /\ \A n \in DOMAIN compile.cfg.Templates :
                    /\ n \in DOMAIN compile.out.result
                    /\ compile.out.result[n] = CompiledFrom(compile.cfg.Templates[n])
              /\ \A n \in DOMAIN compile.cfg.Layouts :
                    /\ n \in DOMAIN compile.out.result
                    /\ compile.out.result[n] = CompiledFrom(compile.cfg.Layouts[n])
        /\ (\E i \in DOMAIN Declared : ~FileOk(i)) => compile.out.err # NoError

\* The template of the renderer rendered alone against the data.
InnerContent == FRender("", render.m.renderer.tmpl, <<render.v>>)

\* C14 as stated: Render writes the layout rendered against the one value
\* {content: the template rendered against the data}.
C14_LayoutOfContentOnly ==
    (render.out.done /\ render.out.err = NoError) =>
        render.out.w = FRender("", render.m.renderer.layout, <<[content |-> InnerContent.w]>>).w

\* The data with its content replaced by c.
WithContent(v, c) ==
    [n \in DOMAIN v \cup {"content"} |-> IF n = "content" THEN c ELSE v[n]]

\* C14 amended: Render writes the layout rendered against the data with
\* content set to the template rendered against the data, so the layout still
\* sees the other names of the data; the template is rendered first and
\* against the data alone, and when it fails nothing is written.
C14_LayoutOfContentAndData ==
    render.out.done =>
        /\ InnerContent.err # NoError => render.out.err # NoError /\ render.out.w = ""
        /\ InnerContent.err = NoError =>
              render.out = [done |-> TRUE]
                           @@ FRender("", render.m.renderer.layout,
                                      <<WithContent(render.v, InnerContent.w)>>)

\* The layout shows the title of the data before the content, and the data
\* has a content of its own, which the template has read.
C14_Witness ==
    /\ render.out.done /\ render.out.err = NoError
    /\ render.v = [title |-> "x", content |-> "y"]
    /\ render.m.renderer.tmpl = <<Var("content"), Text("!")>>
    /\ render.out.w = "x|y!"

\* The steps of the loop of h, in the only order they are taken.
LoopSteps == {<<"subscribe", "receive">>, <<"receive", "assign">>, <<"assign", "subscribe">>}

\* What a step of the system does to the loop of h.
AlternatesAt(h) ==
    /\ hpc'[h] # hpc[h] => <<hpc[h], hpc'[h]>> \in LoopSteps
    /\ accepted'[h] # accepted[h] <=> (hpc[h] = "subscribe" /\ hpc'[h] = "receive")
    /\ accepted'[h] # accepted[h] =>
          /\ accepted'[h] = accepted[h] + 1
          /\ delivered[h] = accepted[h]
          /\ accepted[h] >= 1 => handler[h].Renderer = recv[h]
    /\ delivered'[h] # delivered[h] <=> (hpc[h] = "receive" /\ hpc'[h] = "assign")
    /\ delivered'[h] # delivered[h] =>
          /\ delivered'[h] = delivered[h] + 1
          /\ recv'[h] = sending.r
          /\ handler'[h] = handler[h]
    /\ (hpc[h] = "assign" /\ hpc'[h] = "subscribe") => handler'[h].Renderer = recv[h]

\* C15: the loop of a Handler goes register, receive, replace and round again:
\* a Subscription is accepted only in the register step, a Renderer arrives
\* only in the receive step that follows, the replace step sets the Renderer
\* to the one received, and when the Subscription after the n-th is accepted
\* the Handler has received n Renderers and holds the n-th; it never has more
\* than one Subscription outstanding.
C15_Alternates ==
    /\ [](\A h \in Handlers : Outstanding(h) <= 1)
    /\ [][\A h \in Handlers : AlternatesAt(h)]_vars

\* The third Subscription of a Handler has been accepted while it holds the
\* second Renderer delivered to it.
C15_Witness ==
    \E h \in Handlers :
        /\ accepted[h] = 3 /\ delivered[h] = 2 /\ Outstanding(h) = 1
        /\ handler[h].Renderer = recv[h] /\ recv[h].data = 2

\* The last broadcast was for the topic of h, and h, which had received a
\* Renderer before, had no Subscription pending then.
MissedBroadcast(h) ==
    /\ sending.topic = Topic(handler[h].Page)
    /\ delivered[h] >= 1
    /\ CountIn(sending.to, h) = 0

\* C16: a Handler that is between receiving a Renderer and having its next
\* Subscription accepted when the Broker broadcasts an update for its topic is
\* not sent this update: it never receives it, and once it has stored the
\* Renderer it received last it holds that earlier one, also after it has
\* subscribed again.
C16_GapKeepsEarlier ==
    \A h \in Handlers :
        MissedBroadcast(h) =>
            /\ ~HasReceived(h, sending.r)
            /\ recv[h].data < sending.r.data
            /\ hpc[h] # "assign" => handler[h].Renderer = recv[h]

\* The interleaving: the second update was broadcast and sent while h held
\* the first with no Subscription pending; h has subscribed again since and
\* still holds the first.
C16_Witness ==
    \E h \in Handlers :
        /\ MissedBroadcast(h) /\ sending.outs = <<>>
        /\ sending.r.data = 2
        /\ hpc[h] = "receive" /\ accepted[h] = 2
        /\ handler[h].Renderer = CompiledRenderer(sending.topic, 1)

\* How far HandlerFunc has got.
Stage(pc) ==
    CASE pc = "idle" -> 0
      [] pc = "generating" -> 1
      [] pc = "rendering" -> 2
      [] pc = "render" -> 3
      [] pc \in {"done", "crashed"} -> 4

\* C17: a request never waits for the subscription loop.  Wherever the loops
\* and the Broker stand, a request whose generator is running can take its
\* return, a request that is to render can enter Render, and a request inside
\* Render can take its return; and every step of a request takes it further
\* towards the end of HandlerFunc, or is the arrival of the next request once
\* it has ended.  So a request whose generator returns reaches the end in
\* three steps of its own, with nothing asked of the loops and the Broker.
C17_NeverWaits ==
    /\ [](req.pc = "generating" => ENABLED GeneratorReturn)
    /\ [](req.pc = "rendering" => ENABLED RenderCall)
    /\ [](req.pc = "render" => ENABLED RenderReturn)
    /\ [][req' # req =>
             \/ Stage(req'.pc) > Stage(req.pc)
             \/ Stage(req.pc) = 4 /\ req'.pc = "generating"]_vars

\* A request has been served by a Handler whose Subscription the Broker has
\* accepted and never answered, while another Handler is still blocked on
\* the send of its first Subscription.
C17_Witness ==
    /\ req.pc = "done" /\ req.renderCalls = 1 /\ req.err = NoError
    /\ hpc[req.h] = "receive" /\ delivered[req.h] = 0
    /\ \E h \in Handlers : hpc[h] = "subscribe" /\ accepted[h] = 0

\* C18: the Renderer a request renders with is the one its Handler held when
\* the read happened or the one the Handler had received last, which the loop
\* was about to store, and never any other value.
C18_OldOrNew ==
    req.renderCalls > 0 => req.used \in {req.old, req.new}

\* What a step of the system may change of Handler h.
FrameAt(h) ==
    /\ handler'[h].Page = handler[h].Page
    /\ handler'[h].ResponseGenerator = handler[h].ResponseGenerator
    /\ handler'[h].CacheControl = handler[h].CacheControl
    /\ handler'[h].Renderer # handler[h].Renderer =>
          /\ hpc[h] = "assign" /\ hpc'[h] = "subscribe"
          /\ delivered[h] >= 1
          /\ handler'[h].Renderer = recv[h]
    /\ accepted'[h] # accepted[h] => handler'[h] = handler[h]
    /\ req' # req => handler'[h] = handler[h]
    /\ (hpc[h] = "receive" /\ delivered'[h] = delivered[h]) =>
          hpc'[h] = "receive" /\ handler'[h] = handler[h]

\* C19: the only step that changes the Renderer of a Handler is the store of
\* its loop, after a delivery on its channel, and it stores the Renderer
\* received; no step changes the Page, the generator or the cache-control
\* value; the send of a Subscription and the steps of a request change
\* nothing of the Handler; and a Handler waiting on its channel stays there
\* with its Renderer for as long as nothing is delivered to it.
C19_SingleWriter ==
    [][\A h \in Handlers : FrameAt(h)]_vars

\* A Handler has stored its first delivered Renderer, subscribed again, and
\* served a request with it under the cache-control value of its config.
C19_Witness ==
    \E h \in Handlers :
        /\ delivered[h] = 1 /\ accepted[h] = 2 /\ hpc[h] = "receive"
        /\ handler[h].Renderer = recv[h]
        /\ req.h = h /\ req.pc = "done" /\ req.used = recv[h]
        /\ req.header = NewHandlerConfig(PageOf(h)).CacheControl

\* C20: every Handler the Broker still has to send the broadcast Renderer to
\* is at the receive on its own channel, so the send can be taken; and under
\* fair scheduling the Broker gets through all the sends of a broadcast.
C20_DeliveryCompletes ==
    /\ [](\A k \in DOMAIN sending.outs :
             /\ hpc[sending.outs[k]] = "receive"
             /\ CountIn(sending.outs, sending.outs[k]) = 1)
    /\ (sending.outs # <<>>) ~> (sending.outs = <<>>)

\* The second broadcast went to two Handlers and both sends are done.
C20_Witness ==
    /\ version = 2 /\ Len(sending.to) = 2 /\ sending.outs = <<>>
    /\ \A k \in DOMAIN sending.to : delivered[sending.to[k]] = 2

====
